---- MODULE Spec2Model ----
(***************************************************************************)
(* XMODEM engine (shell/xmodem/src/lib.rs): the per-packet operations      *)
(* write_packet and read_packet, and the drivers transmit and receive.     *)
(*                                                                         *)
(* A sender thread and a receiver thread each own one engine.  A thread    *)
(* only ever blocks in read_byte, so one step of a thread is: take the     *)
(* next byte from its inbound channel and run the code up to the next      *)
(* read_byte or to the return of the call.  `link` says what is on the     *)
(* other end of the transport: the other engine (loopback), or a peer      *)
(* that may send any byte of a small alphabet.                             *)
(***************************************************************************)
EXTENDS Integers, Sequences, FiniteSets, TLC

\* Control bytes.
SOH == 1
EOT == 4
ACK == 6
NAK == 21
CAN == 24

\* Program constants.
BlockLen == 128
PayloadLen == 127
MaxAttempts == 10

\* Bounds of the model.
\* Most data packets one transfer moves (the long source, the peer's supply).
MaxPackets == 257
\* The peer may misbehave only while fewer than this many packets succeeded.
FaultWindow == 2
\* Most calls a caller that drives the engine by hand makes.
MaxCalls == 3

VARIABLES
  link,            \* "loopback" | "sender" | "receiver"
  driver,          \* TRUE: transmit/receive drive the engines; FALSE: manual calls
  overflowChecks,  \* build option: u8 `+` panics on overflow (TRUE) or wraps
  src,             \* the data source handed to transmit: [len, kind]
  tx,              \* the sender thread: engine, current call, transmit's locals
  rx,              \* the receiver thread: engine, current call, receive's locals
  toTx,            \* bytes in flight to the sender
  toRx             \* bytes in flight to the receiver

vars == <<link, driver, overflowChecks, src, tx, rx, toTx, toRx>>

(***************************************************************************)
(* Data                                                                    *)
(***************************************************************************)
Kinds == {"ones", "alt", "ff"}

\* Byte k (from 0) of a source or buffer of the given kind.
SrcByte(kind, k) ==
  CASE kind = "ones" -> 1
    [] kind = "alt" -> 1 + (k % 2)
    [] kind = "ff" -> 255
    [] kind = "can" -> CAN
    [] OTHER -> 0

Fill(kind, len) == SubSeq([i \in 1..len |-> SrcByte(kind, i - 1)], 1, len)

Zeros(len) == SubSeq([i \in 1..len |-> 0], 1, len)

\* buf[i] = b, i from 1.
Store(buf, i, b) == SubSeq(buf, 1, i - 1) \o <<b>> \o SubSeq(buf, i + 1, Len(buf))

\* !x on a u8.
Not8(x) == 255 - x

\* Mutants of WrappingInc: a counter that skips 0; a counter that does not wrap.
MutIncSkipZero(x) == IF x = 255 THEN 1 ELSE x + 1

MutIncNoWrap(x) == x + 1

\* u8 wrapping_add(1).
WrappingInc(x) == (x + 1) % 256

\* The state of the checksum loop: the running checksum, the rounds entered,
\* and whether `checksum + buf[i]` overflowed in a build that traps on it.
RoundsInit == [sum |-> 0, n |-> 0, trap |-> FALSE]

\* One round: checksum = (checksum + b) % 256, on u8.  The sum of two u8 that
\* exceeds 255 wraps, or panics in a build with overflow checks.  The modulus
\* is taken at its written value, 256.
Round(st, b) ==
  IF st.trap THEN st
  ELSE IF overflowChecks /\ st.sum + b > 255
  THEN [st EXCEPT !.n = @ + 1, !.trap = TRUE]
  ELSE [st EXCEPT !.n = @ + 1, !.sum = ((st.sum + b) % 256) % 256]

\* The rounds lo..hi in order: those of lo..mid, then those of mid+1..hi.
RECURSIVE Rounds(_, _, _, _)
Rounds(buf, st, lo, hi) ==
  IF lo > hi THEN st
  ELSE IF lo = hi THEN Round(st, buf[lo])
  ELSE LET mid == (lo + hi) \div 2
           left == Rounds(buf, st, lo, mid)
       IN IF left.trap THEN left ELSE Rounds(buf, left, mid + 1, hi)

\* The arithmetic sum of buf[lo..hi].
RECURSIVE Sum(_, _, _)
Sum(buf, lo, hi) ==
  IF lo > hi THEN 0
  ELSE IF lo = hi THEN buf[lo]
  ELSE LET mid == (lo + hi) \div 2
       IN Sum(buf, lo, mid) + Sum(buf, mid + 1, hi)

\* Progress events.
Waiting == [t |-> "Waiting", n |-> 0]
Started == [t |-> "Started", n |-> 0]
Packet(n) == [t |-> "Packet", n |-> n]

(***************************************************************************)
(* Helpers on a thread record                                              *)
(***************************************************************************)
\* write_byte, once per byte, on a transport that takes them all.
Emit(e, bytes) == [e EXCEPT !.out = @ \o bytes, !.sent = @ \o bytes]

\* (self.progress)(ev)
Notify(e, ev) == [e EXCEPT !.events = Append(@, ev)]

\* return Err(kind)
Fail(e, kind) == [e EXCEPT !.pc = "idle", !.res = kind, !.resN = 0]

\* return Ok(n)
Done(e, n) == [e EXCEPT !.pc = "idle", !.res = "Ok", !.resN = n]

\* A call begins: the per-call history is reset.
Enter(e, buf) ==
  [e EXCEPT !.buf = buf, !.res = "none", !.resN = 0, !.out = <<>>,
            !.prevSent = e.sent, !.sent = <<>>, !.events = <<>>]

\* A blocked call resumes on one byte.
Resume(e) == [e EXCEPT !.out = <<>>]

\* `self.write_byte(b)?` for each of bytes, which are bytes first, first+1, ..
\* of a data packet: the transport fails the write of byte e.failAt of a data
\* packet (0: of none) with an error of kind Other, and `?` returns it.
WriteAll(e, bytes, first) ==
  IF e.failAt \in first..(first + Len(bytes) - 1)
  THEN Fail(Emit(e, SubSeq(bytes, 1, e.failAt - first)), "Other")
  ELSE Emit(e, bytes)

\* `self.write_byte(b);` for byte `at` of a data packet: the result is dropped.
WriteUnchecked(e, b, at) == IF e.failAt = at THEN e ELSE Emit(e, <<b>>)

(***************************************************************************)
(* Byte primitives                                                         *)
(***************************************************************************)
\* Mutant of ReadByte: CAN is returned like any other byte.
MutReadByte(abort_on_can, b) == "Ok"

\* read_byte(abort_on_can) on the byte b the transport yields (lines 142-152).
ReadByte(abort_on_can, b) ==
  IF abort_on_can /\ b = CAN THEN "ConnectionAborted" ELSE "Ok"

\* Mutant of ExpectByte: any byte but CAN passes for the expected one.
MutExpectByte(byte, b) == ReadByte(TRUE, b)

\* expect_byte(byte, _) on the byte b the transport yields (lines 203-213).
ExpectByte(byte, b) ==
  IF ReadByte(TRUE, b) # "Ok" THEN ReadByte(TRUE, b)
  ELSE IF b = byte THEN "Ok"
  ELSE IF b = CAN THEN "ConnectionAborted"
  ELSE "InvalidData"

(***************************************************************************)
(* write_packet                                                            *)
(***************************************************************************)
\* Lines 334-342 and 366-368: up to the first read of the body.
WriteBody(e) ==
  IF Len(e.buf) # 0
  THEN LET w == WriteAll(e, <<SOH, e.packet>>, 1)
       IN IF w.res # "none" THEN w ELSE [w EXCEPT !.pc = "echo1"]
  ELSE [Emit(e, <<EOT>>) EXCEPT !.pc = "eot1"]

\* Mutant of WritePayload: the whole 128-byte buffer goes out as payload.
MutWritePayload(e) ==
  LET st == Rounds(e.buf, RoundsInit, 1, PayloadLen)
      w == WriteAll(e, SubSeq(e.buf, 1, IF st.trap THEN st.n ELSE BlockLen), 4)
  IN IF w.res # "none" THEN w
     ELSE IF st.trap THEN [w EXCEPT !.pc = "panic"]
     ELSE [WriteUnchecked(w, st.sum, PayloadLen + 4) EXCEPT !.pc = "resp"]

\* Lines 345-351: the payload loop and the checksum byte.
\* In round i the byte is written first and added to the checksum after.
WritePayload(e) ==
  LET st == Rounds(e.buf, RoundsInit, 1, PayloadLen)
      w == WriteAll(e, SubSeq(e.buf, 1, IF st.trap THEN st.n ELSE PayloadLen), 4)
  IN IF w.res # "none" THEN w
     ELSE IF st.trap THEN [w EXCEPT !.pc = "panic"]
     ELSE [WriteUnchecked(w, st.sum, PayloadLen + 4) EXCEPT !.pc = "resp"]

\* Mutant of WriteStart: the handshake comes before the length check.
MutWriteStart(e0, buf) ==
  LET e == Enter(e0, buf) IN
  IF ~e.started THEN [Notify(e, Waiting) EXCEPT !.pc = "hs"]
  ELSE IF Len(buf) < BlockLen /\ Len(buf) # 0 THEN Fail(e, "UnexpectedEof")
  ELSE WriteBody(e)

\* Lines 318-331: entry of write_packet(buf), up to its first read.
WriteStart(e0, buf) ==
  LET e == Enter(e0, buf) IN
  IF Len(buf) < BlockLen /\ Len(buf) # 0 THEN Fail(e, "UnexpectedEof")
  ELSE IF ~e.started THEN [Notify(e, Waiting) EXCEPT !.pc = "hs"]
  ELSE WriteBody(e)

\* Mutant of WriteResponse: a NAK advances the sequence number too.
MutWriteResponse(e, b) ==
  IF b = ACK
  THEN Done([Notify(e, Packet(e.packet)) EXCEPT !.packet = WrappingInc(e.packet)],
            Len(e.buf))
  ELSE IF b = NAK
  THEN Fail([e EXCEPT !.packet = WrappingInc(e.packet)], "Interrupted")
  ELSE Fail(e, "InvalidData")

\* Mutant of WriteResponse: the Packet event carries the number after the
\* increment.
MutWriteResponseLate(e, b) ==
  IF b = ACK
  THEN Done([Notify(e, Packet(WrappingInc(e.packet)))
               EXCEPT !.packet = WrappingInc(e.packet)],
            Len(e.buf))
  ELSE IF b = NAK THEN Fail(e, "Interrupted")
  ELSE Fail(e, "InvalidData")

\* Line 354-363: the peer's answer to a data packet.
WriteResponse(e, b) ==
  IF b = ACK
  THEN Done([Notify(e, Packet(e.packet)) EXCEPT !.packet = WrappingInc(e.packet)],
            Len(e.buf))
  ELSE IF b = NAK THEN Fail(e, "Interrupted")
  ELSE Fail(e, "InvalidData")

\* write_packet resumed at its read point e.pc with the byte b.
WriteOnByte(e0, b) ==
  LET e == Resume(e0) IN
  CASE e.pc = "hs" ->
         IF ExpectByte(NAK, b) # "Ok" THEN Fail(e, ExpectByte(NAK, b))
         ELSE WriteBody(Notify([e EXCEPT !.started = TRUE], Started))
    [] e.pc = "echo1" ->
         IF ReadByte(TRUE, b) # "Ok" THEN Fail(e, ReadByte(TRUE, b))
         ELSE LET w == WriteAll(e, <<Not8(e.packet)>>, 3)
              IN IF w.res # "none" THEN w ELSE [w EXCEPT !.pc = "echo2"]
    [] e.pc = "echo2" ->
         IF ReadByte(TRUE, b) # "Ok" THEN Fail(e, ReadByte(TRUE, b))
         ELSE WritePayload(Notify(e, Started))
    [] e.pc = "resp" ->
         IF ReadByte(TRUE, b) # "Ok" THEN Fail(e, ReadByte(TRUE, b))
         ELSE WriteResponse(e, b)
    [] e.pc = "eot1" ->
         IF ExpectByte(NAK, b) # "Ok" THEN Fail(e, ExpectByte(NAK, b))
         ELSE [Emit(e, <<EOT>>) EXCEPT !.pc = "eot2"]
    [] e.pc = "eot2" ->
         IF ExpectByte(ACK, b) # "Ok" THEN Fail(e, ExpectByte(ACK, b))
         ELSE Done([e EXCEPT !.started = FALSE], 0)
    [] OTHER -> e

(***************************************************************************)
(* read_packet                                                             *)
(***************************************************************************)
\* Lines 238-250: entry of read_packet(buf), up to its first read.
ReadStart(e0, buf) ==
  LET e == Enter(e0, buf) IN
  IF Len(buf) < BlockLen THEN Fail(e, "UnexpectedEof")
  ELSE IF ~e.started
  THEN [Notify(Emit([e EXCEPT !.started = TRUE], <<NAK>>), Started) EXCEPT !.pc = "ctl"]
  ELSE [e EXCEPT !.pc = "ctl"]

\* Lines 270-273: one round of the payload loop, on the byte b.
ReadPayload(e, b) ==
  LET st == Round([sum |-> e.checksum, n |-> e.i, trap |-> FALSE], b)
      stored == [e EXCEPT !.buf = Store(e.buf, e.i + 1, b)]
  IN IF st.trap THEN [stored EXCEPT !.pc = "panic"]
     ELSE [stored EXCEPT !.checksum = st.sum, !.i = st.n,
                         !.pc = IF st.n = PayloadLen THEN "cksum" ELSE "payload"]

\* Lines 275-283: the trailing checksum byte b.
ReadChecksum(e, b) ==
  IF e.checksum # b
  THEN Fail(Emit(e, <<NAK>>), "Interrupted")
  ELSE Done(Emit([Notify(e, Packet(e.packet)) EXCEPT !.packet = WrappingInc(e.packet)],
                 <<ACK>>),
            BlockLen)

\* Mutant of ReadEot: the first EOT is acknowledged at once.
MutReadEot(e) == [Emit(e, <<ACK>>) EXCEPT !.pc = "eot"]

\* Lines 259-261: the first EOT is answered NAK, and a second one awaited.
ReadEot(e) == [Emit(e, <<NAK>>) EXCEPT !.pc = "eot"]

\* read_packet resumed at its read point e.pc with the byte b.  Every read of
\* read_packet but the one for the second EOT is read_byte(true).
ReadOnByte(e0, b) ==
  LET e == Resume(e0) IN
  IF e.pc # "eot" /\ ReadByte(TRUE, b) # "Ok" THEN Fail(e, ReadByte(TRUE, b))
  ELSE
  CASE e.pc = "ctl" ->
         IF b = SOH THEN [e EXCEPT !.pc = "seq"]
         ELSE IF b = EOT THEN ReadEot(e)
         ELSE Fail(e, "InvalidData")
    [] e.pc = "seq" ->
         [(IF b # e.packet THEN Emit(e, <<CAN>>) ELSE e) EXCEPT !.pc = "cmp"]
    [] e.pc = "cmp" ->
         [(IF b # Not8(e.packet) THEN Emit(e, <<CAN>>) ELSE e)
            EXCEPT !.pc = "payload", !.i = 0, !.checksum = 0]
    [] e.pc = "payload" -> ReadPayload(e, b)
    [] e.pc = "cksum" -> ReadChecksum(e, b)
    [] e.pc = "eot" ->
         IF ExpectByte(EOT, b) # "Ok" THEN Fail(e, ExpectByte(EOT, b))
         ELSE Done(Emit(e, <<ACK>>), 0)
    [] OTHER -> e

(***************************************************************************)
(* transmit                                                                *)
(***************************************************************************)
Min(a, b) == IF a < b THEN a ELSE b

\* data.read_max(&mut packet): the bytes read, at most BlockLen, 0 at the end.
ReadMax(t) == Min(BlockLen, src.len - t.srcPos)

\* Lines 53-62: the top of 'next_packet, up to the first read of the call made.
TransmitNext(t) ==
  LET n == ReadMax(t)
      packet == SubSeq([i \in 1..BlockLen |->
                          IF i <= n THEN SrcByte(src.kind, t.srcPos + i - 1) ELSE 0],
                       1, BlockLen)
      t1 == [t EXCEPT !.n = n, !.srcPos = @ + n, !.attempt = 0]
  IN IF n = 0 THEN WriteStart(t1, <<>>) ELSE WriteStart(t1, packet)

\* Mutant of TransmitOnReturn: one attempt too many.
MutTransmitOnReturn(t) ==
  IF Len(t.buf) = 0
  THEN IF t.res = "Ok" THEN [t EXCEPT !.ret = "Ok", !.retN = t.written]
       ELSE [t EXCEPT !.ret = t.res]
  ELSE IF t.res = "Interrupted"
  THEN IF t.attempt + 1 <= MaxAttempts
       THEN WriteStart([t EXCEPT !.attempt = @ + 1], t.buf)
       ELSE [t EXCEPT !.attempt = @ + 1, !.ret = "BrokenPipe"]
  ELSE IF t.res = "Ok" THEN TransmitNext([t EXCEPT !.written = @ + t.n])
  ELSE [t EXCEPT !.ret = t.res]

\* Lines 57-72: what transmit does with the result of write_packet.
TransmitOnReturn(t) ==
  IF Len(t.buf) = 0
  THEN IF t.res = "Ok" THEN [t EXCEPT !.ret = "Ok", !.retN = t.written]
       ELSE [t EXCEPT !.ret = t.res]
  ELSE IF t.res = "Interrupted"
  THEN IF t.attempt + 1 < MaxAttempts
       THEN WriteStart([t EXCEPT !.attempt = @ + 1], t.buf)
       ELSE [t EXCEPT !.attempt = @ + 1, !.ret = "BrokenPipe"]
  ELSE IF t.res = "Ok" THEN TransmitNext([t EXCEPT !.written = @ + t.n])
  ELSE [t EXCEPT !.ret = t.res]

(***************************************************************************)
(* receive                                                                 *)
(***************************************************************************)
\* Lines 96-98: the top of 'next_packet.
ReceiveNext(r) == ReadStart([r EXCEPT !.attempt = 0], r.buf)

\* Lines 98-113: what receive does with the result of read_packet.
ReceiveOnReturn(r) ==
  IF r.res = "Interrupted"
  THEN IF r.attempt + 1 < MaxAttempts
       THEN ReadStart([r EXCEPT !.attempt = @ + 1], r.buf)
       ELSE [r EXCEPT !.attempt = @ + 1, !.ret = "BrokenPipe"]
  ELSE IF r.res # "Ok" THEN [r EXCEPT !.ret = r.res]
  ELSE IF r.resN = 0 THEN [r EXCEPT !.ret = "Ok", !.retN = r.received]
  ELSE ReceiveNext([r EXCEPT !.received = @ + r.resN, !.into = r.buf])

(***************************************************************************)
(* The transport                                                           *)
(***************************************************************************)
\* Bytes written reach the other engine on a loopback pair; a peer takes them.
Deliver(chan, out) == IF link = "loopback" THEN chan \o out ELSE chan

TxBlocked == tx.pc \in {"hs", "echo1", "echo2", "resp", "eot1", "eot2"}

RxBlocked == rx.pc \in {"ctl", "seq", "cmp", "payload", "cksum", "eot"}

\* The byte a receiving peer that echoes the header sends at a read point.
Cooperative(pc) == IF pc \in {"hs", "eot1"} THEN NAK ELSE ACK

\* What a receiving peer may answer the sender.
PeerBytes ==
  IF tx.okCount < FaultWindow THEN {ACK, NAK, CAN, SOH} ELSE {Cooperative(tx.pc)}

\* A well-formed data packet on the wire.
Frame(seq, payload) ==
  <<SOH, seq, Not8(seq)>> \o payload \o <<Sum(payload, 1, PayloadLen) % 256>>

\* The payloads a sending peer may send: a source's, or bytes equal to CAN.
FrameKinds == Kinds \cup {"can"}

\* Where a sending peer may cut a packet short with CAN.
CanOffsets == {0, 1, 2, 3, 66, 129, 130}

\* What a sending peer may send the receiver that waits for a packet.
PeerFrames ==
  LET good == IF rx.okCount < MaxPackets
              THEN {Frame(rx.packet, Fill(k, PayloadLen)) : k \in FrameKinds}
              ELSE {}
      bad == UNION {
               { Store(f, PayloadLen + 4, (f[PayloadLen + 4] + 1) % 256),
                 Store(f, 2, WrappingInc(f[2])),
                 Store(f, 3, WrappingInc(f[3])) }
               \cup { SubSeq(f, 1, k) \o <<CAN>> : k \in CanOffsets }
               : f \in good }
  IN IF rx.okCount < FaultWindow
     THEN good \cup bad \cup {<<EOT>>, <<ACK>>}
     ELSE good \cup {<<EOT>>}

\* What a sending peer may send the receiver in the end-of-transfer exchange.
PeerEot == IF rx.okCount < FaultWindow THEN {<<EOT>>, <<CAN>>, <<ACK>>} ELSE {<<EOT>>}

(***************************************************************************)
(* Actions                                                                 *)
(***************************************************************************)
\* History: the data packets a thread's engine exchanged successfully.
Count(old, new) ==
  [new EXCEPT !.okCount = IF old.res = "none" /\ new.res = "Ok" /\ new.resN > 0
                          THEN old.okCount + 1 ELSE old.okCount]

SrcLens == {0, 1, 127, 128, 129, 256, BlockLen * (MaxPackets - 1) + 1}

ManualBufs ==
  {<<>>} \cup {Fill(k, n) : k \in Kinds, n \in {1, 127, 128, 129}}

ManualLens == {0, 127, 128, 129}

\* The byte of a data packet whose write the sender's transport fails: none
\* (0), SOH, the number, its complement, a payload byte, the checksum byte.
FailPoints == {0, 1, 2, 3, 4, 67, PayloadLen + 3, PayloadLen + 4}

TxInit ==
  [pc |-> "idle", packet |-> 1, started |-> FALSE, buf |-> <<>>,
   res |-> "none", resN |-> 0, out |-> <<>>, sent |-> <<>>, prevSent |-> <<>>,
   events |-> <<>>, okCount |-> 0, calls |-> 0, failAt |-> 0,
   n |-> 0, srcPos |-> 0, attempt |-> 0, written |-> 0, ret |-> "none", retN |-> 0]

RxInit ==
  [pc |-> "idle", packet |-> 1, started |-> FALSE, buf |-> Zeros(BlockLen),
   i |-> 0, checksum |-> 0,
   res |-> "none", resN |-> 0, out |-> <<>>, sent |-> <<>>, prevSent |-> <<>>,
   events |-> <<>>, okCount |-> 0, calls |-> 0,
   attempt |-> 0, received |-> 0, into |-> <<>>, ret |-> "none", retN |-> 0]

Init ==
  /\ link \in {"loopback", "sender", "receiver"}
  /\ driver \in BOOLEAN
  /\ overflowChecks \in BOOLEAN
  /\ src \in IF driver /\ link # "receiver"
             THEN [len : SrcLens, kind : Kinds]
             ELSE {[len |-> 0, kind |-> "ones"]}
  /\ tx \in {[TxInit EXCEPT !.failAt = k] :
               k \in IF link = "sender" /\ ~driver THEN FailPoints ELSE {0}}
  /\ rx = RxInit
  /\ toTx = <<>>
  /\ toRx = <<>>

\* transmit runs from a return of write_packet (or from its start) to the
\* next read.
TxDrive ==
  /\ driver /\ link # "receiver"
  /\ tx.pc = "idle" /\ tx.ret = "none"
  /\ tx' = IF tx.res = "none" THEN TransmitNext(tx) ELSE TransmitOnReturn(tx)
  /\ toRx' = Deliver(toRx, tx'.out)
  /\ UNCHANGED <<link, driver, overflowChecks, src, rx, toTx>>

\* A caller calls write_packet(buf) by hand.
TxManual ==
  /\ ~driver /\ link # "receiver"
  /\ tx.pc = "idle" /\ tx.calls < MaxCalls
  /\ \E buf \in ManualBufs : tx' = [WriteStart(tx, buf) EXCEPT !.calls = @ + 1]
  /\ toRx' = Deliver(toRx, tx'.out)
  /\ UNCHANGED <<link, driver, overflowChecks, src, rx, toTx>>

\* The sender's blocked read_byte returns.
TxRead ==
  /\ TxBlocked /\ toTx # <<>>
  /\ tx' = Count(tx, WriteOnByte(tx, Head(toTx)))
  /\ toTx' = Tail(toTx)
  /\ toRx' = Deliver(toRx, tx'.out)
  /\ UNCHANGED <<link, driver, overflowChecks, src, rx>>

\* receive runs from a return of read_packet (or from its start) to the next
\* read.
RxDrive ==
  /\ driver /\ link # "sender"
  /\ rx.pc = "idle" /\ rx.ret = "none"
  /\ rx' = IF rx.res = "none" THEN ReceiveNext(rx) ELSE ReceiveOnReturn(rx)
  /\ toTx' = Deliver(toTx, rx'.out)
  /\ UNCHANGED <<link, driver, overflowChecks, src, tx, toRx>>

\* A caller calls read_packet(buf) by hand, on a zeroed buffer.
RxManual ==
  /\ ~driver /\ link # "sender"
  /\ rx.pc = "idle" /\ rx.calls < MaxCalls
  /\ \E n \in ManualLens : rx' = [ReadStart(rx, Zeros(n)) EXCEPT !.calls = @ + 1]
  /\ toTx' = Deliver(toTx, rx'.out)
  /\ UNCHANGED <<link, driver, overflowChecks, src, tx, toRx>>

\* The receiver's blocked read_byte returns.
RxRead ==
  /\ RxBlocked /\ toRx # <<>>
  /\ rx' = Count(rx, ReadOnByte(rx, Head(toRx)))
  /\ toRx' = Tail(toRx)
  /\ toTx' = Deliver(toTx, rx'.out)
  /\ UNCHANGED <<link, driver, overflowChecks, src, tx>>

\* The peer of a lone sender answers the read the sender is blocked in.
PeerAnswer ==
  /\ link = "sender" /\ TxBlocked /\ toTx = <<>>
  /\ \E b \in PeerBytes : toTx' = <<b>>
  /\ UNCHANGED <<link, driver, overflowChecks, src, tx, rx, toRx>>

\* The peer of a lone receiver sends while the receiver waits between packets.
PeerSend ==
  /\ link = "receiver" /\ toRx = <<>>
  /\ \/ rx.pc = "ctl" /\ \E f \in PeerFrames : toRx' = f
     \/ rx.pc = "eot" /\ \E f \in PeerEot : toRx' = f
  /\ UNCHANGED <<link, driver, overflowChecks, src, tx, rx, toTx>>

Next ==
  \/ TxDrive
  \/ TxManual
  \/ TxRead
  \/ RxDrive
  \/ RxManual
  \/ RxRead
  \/ PeerAnswer
  \/ PeerSend

Spec == Init /\ [][Next]_vars

\* The two engines on a loopback pair.  A thread that can run does run: the
\* drivers and the blocked reads are weakly fair; a caller by hand may stop.
LoopInit == Init /\ link = "loopback"

LoopNext ==
  \/ TxDrive
  \/ TxManual
  \/ TxRead
  \/ RxDrive
  \/ RxManual
  \/ RxRead

LoopSpec ==
  /\ LoopInit
  /\ [][LoopNext]_vars
  /\ WF_vars(TxDrive)
  /\ WF_vars(TxRead)
  /\ WF_vars(RxDrive)
  /\ WF_vars(RxRead)

(***************************************************************************)
(* Properties                                                              *)
(***************************************************************************)
IsPrefix(p, q) == Len(p) <= Len(q) /\ SubSeq(q, 1, Len(p)) = p

\* The step is the sender's (receiver's) blocked read returning.
TxReads == TxBlocked /\ toTx # <<>> /\ tx' # tx

RxReads == RxBlocked /\ toRx # <<>> /\ rx' # rx

\* No thread can take a step any more.
Ended == ~ENABLED Next

\* The source, zero-padded to one block.
Padded == Fill(src.kind, src.len) \o Zeros(BlockLen - src.len)

\* transmit and receive on a loopback pair, with a source of 1..128 bytes.
C1Case == link = "loopback" /\ driver /\ src.len \in 1..BlockLen

\* C1: for a payload of 1..128 bytes, transmit and receive run against each
\* other on a lossless loopback pair end with both returning success and with
\* the receiver's output being the payload zero-padded to 128 bytes.
C1_LoopbackRoundTrip ==
  (C1Case /\ Ended) =>
    /\ tx.ret = "Ok" /\ rx.ret = "Ok"
    /\ rx.received = BlockLen
    /\ rx.into = Padded

\* transmit and receive on a loopback pair, with an empty source.
C2Case == link = "loopback" /\ driver /\ src.len = 0

\* Both returned Ok(0), after NAK / EOT NAK EOT ACK and nothing else.
C2Done ==
  /\ tx.ret = "Ok" /\ tx.retN = 0 /\ rx.ret = "Ok" /\ rx.retN = 0
  /\ tx.sent = <<EOT, EOT>> /\ rx.sent = <<NAK, NAK, ACK>>

\* C2: with an empty source, transmit against receive on a loopback pair puts
\* no data packet on the wire, only the NAK handshake and the end-of-transfer
\* exchange, and eventually both return Ok(0).
C2_EmptyTransfer ==
  /\ [](C2Case => /\ IsPrefix(tx.sent, <<EOT, EOT>>)
                  /\ IsPrefix(rx.sent, <<NAK, NAK, ACK>>)
                  /\ tx.okCount = 0 /\ rx.okCount = 0)
  /\ (C2Case => <>C2Done)

C2_Witness == C2Case /\ C2Done

\* C3: an engine's sequence number starts at 1 and changes only by +1 modulo
\* 256, exactly once per successfully acknowledged data packet (ACK read by
\* write_packet, matching checksum read by read_packet), so that the packet
\* after 255 successes carries 0 and the one after 256 carries 1.
C3_SequenceNumbers ==
  /\ [](/\ tx.packet = (1 + tx.okCount) % 256
        /\ rx.packet = (1 + rx.okCount) % 256
        /\ (tx.pc \in {"echo1", "echo2", "resp"} => tx.sent[2] = tx.packet))
  /\ [][/\ tx'.packet # tx.packet =>
             /\ tx'.packet = (tx.packet + 1) % 256
             /\ TxReads /\ tx.pc = "resp" /\ Head(toTx) = ACK
             /\ tx'.res = "Ok" /\ tx'.resN = Len(tx.buf)
        /\ (TxReads /\ tx.pc = "resp" /\ Head(toTx) = ACK) =>
             tx'.packet = (tx.packet + 1) % 256
        /\ rx'.packet # rx.packet =>
             /\ rx'.packet = (rx.packet + 1) % 256
             /\ RxReads /\ rx.pc = "cksum" /\ Head(toRx) = rx.checksum
             /\ rx'.res = "Ok" /\ rx'.resN = BlockLen
        /\ (RxReads /\ rx.pc = "cksum" /\ Head(toRx) = rx.checksum
              /\ Head(toRx) # CAN) =>
             rx'.packet = (rx.packet + 1) % 256]_vars

C3_Witness ==
  tx.okCount = 256 /\ tx.pc = "resp" /\ tx.sent[2] = 1 /\ tx.prevSent[2] = 0

\* C4 as stated: the sequence number never takes the value 0.
C4_NeverZero == tx.packet # 0 /\ rx.packet # 0

\* C4 as it holds: the sequence number stays within 0..255 (never 256), and
\* is 0 only when the count of acknowledged packets is 255 modulo 256.
C4_WrapsThroughZero ==
  /\ tx.packet \in 0..255 /\ rx.packet \in 0..255
  /\ tx.packet = 0 => tx.okCount % 256 = 255
  /\ rx.packet = 0 => rx.okCount % 256 = 255

C4_Witness == tx.packet = 0 /\ tx.okCount = 255

\* C5: a CAN byte read at any read point of write_packet or read_packet makes
\* the operation fail with ConnectionAborted (Aborted) there and then; transmit
\* and receive return that error without another attempt, and nothing happens
\* on that engine afterwards, so the end-of-transfer exchange is not completed.
C5_CancelAborts ==
  [][/\ (TxReads /\ Head(toTx) = CAN) =>
          /\ tx'.pc = "idle" /\ tx'.res = "ConnectionAborted"
          /\ tx'.sent = tx.sent /\ tx'.packet = tx.packet
     /\ (RxReads /\ Head(toRx) = CAN) =>
          /\ rx'.pc = "idle" /\ rx'.res = "ConnectionAborted"
          /\ rx'.sent = rx.sent /\ rx'.packet = rx.packet
     /\ (driver /\ tx.pc = "idle" /\ tx.ret = "none"
           /\ tx.res = "ConnectionAborted" /\ tx' # tx) =>
          /\ tx'.ret = "ConnectionAborted" /\ tx'.pc = "idle"
          /\ tx'.sent = tx.sent /\ toRx' = toRx
     /\ (driver /\ rx.pc = "idle" /\ rx.ret = "none"
           /\ rx.res = "ConnectionAborted" /\ rx' # rx) =>
          /\ rx'.ret = "ConnectionAborted" /\ rx'.pc = "idle"
          /\ rx'.sent = rx.sent /\ toTx' = toTx
     /\ tx.ret = "ConnectionAborted" => tx' = tx
     /\ rx.ret = "ConnectionAborted" => rx' = rx]_vars

C5_Witness ==
  driver /\ rx.ret = "ConnectionAborted" /\ rx.i = 63 /\ rx.sent = <<>>

\* C6: transmit and receive attempt each packet exchange at most 10 times: an
\* Interrupted (ChecksumMismatch) failure is retried, the 10th in a row makes
\* the call return BrokenPipe (TransferFailed), and a failure of any other kind
\* is returned the first time, with no retry.
C6_RetryPolicy ==
  /\ [](driver =>
          /\ tx.pc # "idle" => tx.attempt < MaxAttempts
          /\ rx.pc # "idle" => rx.attempt < MaxAttempts
          /\ tx.ret = "BrokenPipe" => tx.attempt = MaxAttempts /\ tx.res = "Interrupted"
          /\ rx.ret = "BrokenPipe" => rx.attempt = MaxAttempts /\ rx.res = "Interrupted")
  /\ [][driver =>
          /\ (tx.pc = "idle" /\ tx.ret = "none" /\ tx.res = "Interrupted" /\ tx' # tx) =>
               IF tx.attempt + 1 < MaxAttempts
               THEN /\ tx'.ret = "none" /\ tx'.res = "none"
                    /\ tx'.attempt = tx.attempt + 1 /\ tx'.buf = tx.buf
               ELSE tx'.ret = "BrokenPipe" /\ tx'.sent = tx.sent
          /\ (rx.pc = "idle" /\ rx.ret = "none" /\ rx.res = "Interrupted" /\ rx' # rx) =>
               IF rx.attempt + 1 < MaxAttempts
               THEN /\ rx'.ret = "none" /\ rx'.res = "none"
                    /\ rx'.attempt = rx.attempt + 1
               ELSE rx'.ret = "BrokenPipe" /\ rx'.sent = rx.sent
          /\ (tx.pc = "idle" /\ tx.ret = "none" /\ tx' # tx
                /\ tx.res \notin {"none", "Ok", "Interrupted"}) =>
               tx'.ret = tx.res /\ tx'.sent = tx.sent /\ tx'.attempt = tx.attempt
          /\ (rx.pc = "idle" /\ rx.ret = "none" /\ rx' # rx
                /\ rx.res \notin {"none", "Ok", "Interrupted"}) =>
               rx'.ret = rx.res /\ rx'.sent = rx.sent /\ rx'.attempt = rx.attempt]_vars

C6_Witness == driver /\ tx.ret = "BrokenPipe" /\ tx.attempt = MaxAttempts

\* C7: a NAK for a data packet gives the sender one Interrupted
\* (ChecksumMismatch) result; transmit then sends the same packet again, byte
\* for byte, with the sequence number unchanged, and the sequence number
\* advances by one only on the ACK.
C7_Retransmit ==
  /\ [](driver /\ tx.attempt >= 1 /\ tx.pc = "resp" =>
          /\ tx.sent = tx.prevSent
          /\ Len(tx.sent) = PayloadLen + 4 /\ tx.sent[2] = tx.packet)
  /\ [][/\ (TxReads /\ tx.pc = "resp" /\ Head(toTx) = NAK) =>
             tx'.res = "Interrupted" /\ tx'.packet = tx.packet
        /\ (driver /\ tx.pc = "idle" /\ tx.ret = "none" /\ tx.res = "Interrupted"
              /\ tx.attempt = 0 /\ tx' # tx) =>
             /\ tx'.attempt = 1 /\ tx'.packet = tx.packet /\ tx'.buf = tx.buf
             /\ tx'.sent = <<SOH, tx.packet>>
        /\ (driver /\ TxReads /\ tx.pc = "resp" /\ Head(toTx) = ACK /\ tx.attempt = 1) =>
             tx'.res = "Ok" /\ tx'.packet = (tx.packet + 1) % 256]_vars

C7_Witness ==
  /\ driver /\ tx.pc = "idle" /\ tx.res = "Ok" /\ tx.attempt = 1
  /\ tx.okCount = 1 /\ tx.packet = 2 /\ tx.sent = tx.prevSent

\* C8: the buffer length is checked before any I/O: read_packet on a buffer
\* shorter than 128 bytes and write_packet on one of 1..127 bytes fail with
\* UnexpectedEof (BufferTooSmall) with no byte read or written, no progress
\* event, and the sequence number and the started flag unchanged.
C8_LengthCheckFirst ==
  [][/\ (tx'.calls # tx.calls /\ Len(tx'.buf) \in 1..(BlockLen - 1)) =>
          /\ tx'.pc = "idle" /\ tx'.res = "UnexpectedEof"
          /\ tx'.out = <<>> /\ tx'.sent = <<>> /\ tx'.events = <<>>
          /\ tx'.packet = tx.packet /\ tx'.started = tx.started
          /\ toTx' = toTx /\ toRx' = toRx
     /\ (rx'.calls # rx.calls /\ Len(rx'.buf) < BlockLen) =>
          /\ rx'.pc = "idle" /\ rx'.res = "UnexpectedEof"
          /\ rx'.out = <<>> /\ rx'.sent = <<>> /\ rx'.events = <<>>
          /\ rx'.packet = rx.packet /\ rx'.started = rx.started
          /\ toTx' = toTx /\ toRx' = toRx]_vars

C8_Witness ==
  /\ ~driver /\ tx.res = "UnexpectedEof" /\ Len(tx.buf) = PayloadLen
  /\ ~tx.started /\ tx.calls = 1

\* C9: for every 127-byte payload the checksum byte write_packet sends, and
\* the one read_packet compares against, is the sum of the payload bytes
\* modulo 256, and computing it never fails or traps on overflow.
C9_ChecksumNeverTraps ==
  /\ tx.pc # "panic" /\ rx.pc # "panic"
  /\ (tx.pc = "resp" /\ tx.failAt = 0) =>
       tx.sent[PayloadLen + 4] = Sum(tx.buf, 1, PayloadLen) % 256
  /\ rx.pc = "cksum" => rx.checksum = Sum(rx.buf, 1, PayloadLen) % 256

\* C10: on success transmit returns the length of the source, and every
\* source byte it counts went out on the wire as payload of an acknowledged
\* packet.
C10_CountsBytesSent ==
  /\ [](driver /\ tx.ret = "Ok" => tx.retN = src.len)
  /\ [][tx'.written # tx.written =>
          /\ tx.res = "Ok"
          /\ tx'.written - tx.written <= Len(tx.sent) - 4]_vars

\* The receiver reads a packet number, or a complement, that is not the
\* expected one (and is not CAN, which aborts).
RxHeaderMismatch ==
  /\ RxReads /\ Head(toRx) # CAN
  /\ \/ rx.pc = "seq" /\ Head(toRx) # rx.packet
     \/ rx.pc = "cmp" /\ Head(toRx) # Not8(rx.packet)

\* C11: read_packet fails with InvalidData when the packet number or its
\* complement is not the expected one; a call that saw such a header never
\* acknowledges the packet and never advances the sequence number.
C11_HeaderMismatchRejected ==
  /\ [][RxHeaderMismatch =>
          /\ rx'.pc = "idle" /\ rx'.res = "InvalidData"
          /\ rx'.packet = rx.packet]_vars
  /\ [](\A k \in 1..Len(rx.sent) : rx.sent[k] = CAN => rx.res # "Ok")

\* The engine's last call completed the end-of-transfer exchange.
TxEotDone == tx.pc = "idle" /\ tx.res = "Ok" /\ tx.resN = 0

RxEotDone == rx.pc = "idle" /\ rx.res = "Ok" /\ rx.resN = 0

\* C12: once an engine completed the end-of-transfer exchange its started flag
\* is false, in the sender and in the receiver, so the next transfer on the
\* same engine opens with the NAK handshake again.
C12_StartedResetAfterEot ==
  /\ [](TxEotDone => ~tx.started)
  /\ [](RxEotDone => ~rx.started)
  /\ [][(RxEotDone /\ rx'.calls # rx.calls /\ Len(rx'.buf) >= BlockLen) =>
          rx'.out = <<NAK>>]_vars

\* C13: when the first byte write_packet reads in the handshake is not NAK,
\* the engine writes CAN before it fails, with ConnectionAborted (Aborted) if
\* the byte was CAN and InvalidData (InvalidProtocolByte) otherwise, and the
\* started flag stays false.
C13_HandshakeCancels ==
  [][(TxReads /\ tx.pc = "hs" /\ Head(toTx) # NAK) =>
       /\ tx'.pc = "idle" /\ ~tx'.started
       /\ tx'.res = IF Head(toTx) = CAN THEN "ConnectionAborted" ELSE "InvalidData"
       /\ tx'.out = <<CAN>>]_vars

\* C14: the end-of-transfer exchange is EOT, NAK, EOT, ACK in that order.
\* write_packet(empty) writes the second EOT only after reading the NAK and
\* returns 0 only on reading the final ACK; read_packet answers the first EOT
\* with NAK and returns 0 only on reading the second EOT, after writing ACK; a
\* byte other than the expected one at either reply point makes the call fail.
C14_EotExchange ==
  /\ [](/\ tx.pc = "eot1" => tx.sent = <<EOT>>
        /\ tx.pc = "eot2" => tx.sent = <<EOT, EOT>>
        /\ TxEotDone => tx.sent = <<EOT, EOT>>
        /\ rx.pc = "eot" => rx.sent \in {<<NAK>>, <<NAK, NAK>>}
        /\ RxEotDone => rx.sent \in {<<NAK, ACK>>, <<NAK, NAK, ACK>>})
  /\ [][/\ (tx.res = "none" /\ tx'.res = "Ok" /\ tx'.resN = 0) =>
             TxReads /\ tx.pc = "eot2" /\ Head(toTx) = ACK /\ tx'.out = <<>>
        /\ (TxReads /\ tx.pc = "eot1") =>
             IF Head(toTx) = NAK
             THEN tx'.pc = "eot2" /\ tx'.out = <<EOT>>
             ELSE tx'.pc = "idle" /\ tx'.res \notin {"none", "Ok"} /\ tx'.out = <<>>
        /\ (TxReads /\ tx.pc = "eot2" /\ Head(toTx) # ACK) =>
             tx'.pc = "idle" /\ tx'.res \notin {"none", "Ok"} /\ tx'.out = <<>>
        /\ (rx.res = "none" /\ rx'.res = "Ok" /\ rx'.resN = 0) =>
             RxReads /\ rx.pc = "eot" /\ Head(toRx) = EOT /\ rx'.out = <<ACK>>
        /\ (RxReads /\ rx.pc = "ctl" /\ Head(toRx) = EOT) =>
             rx'.pc = "eot" /\ rx'.out = <<NAK>>
        /\ (RxReads /\ rx.pc = "eot" /\ Head(toRx) # EOT) =>
             rx'.pc = "idle" /\ rx'.res \notin {"none", "Ok"} /\ rx'.out = <<>>]_vars

C14_Witness ==
  /\ link = "loopback" /\ ~driver /\ TxEotDone /\ RxEotDone
  /\ tx.sent = <<EOT, EOT>> /\ rx.sent = <<NAK, NAK, ACK>>

\* C15: a trailing checksum byte that differs from the accumulated checksum
\* makes read_packet write exactly one NAK and fail with Interrupted
\* (ChecksumMismatch), with no Packet event and with the sequence number and
\* the started flag unchanged; the next call expects the same number.
C15_ChecksumMismatchNak ==
  [][(RxReads /\ rx.pc = "cksum" /\ Head(toRx) # rx.checksum) =>
       /\ rx'.pc = "idle" /\ rx'.res = "Interrupted"
       /\ rx'.out = <<NAK>>
       /\ rx'.events = rx.events
       /\ rx'.packet = rx.packet /\ rx'.started = rx.started]_vars

\* The packet the current (or last) write_packet call sends: the number is the
\* engine's, which has moved on by one once the call returned Ok.
TxFrame ==
  Frame(IF tx.pc = "idle" /\ tx.res = "Ok" THEN (tx.packet + 255) % 256 ELSE tx.packet,
        SubSeq(tx.buf, 1, PayloadLen))

\* C16: on a transport that takes every byte, what a write_packet call with a
\* data buffer puts on the wire is at any time a prefix of SOH, seq, ~seq, the
\* first 127 bytes of the buffer, their sum modulo 256, with seq the engine's
\* sequence number, and is all 131 bytes once the call waits for the answer;
\* no byte of the buffer past the first 127 is ever sent.
C16_PacketLayout ==
  (tx.failAt = 0 /\ Len(tx.buf) >= BlockLen) =>
    /\ IsPrefix(tx.sent, TxFrame)
    /\ (tx.pc = "resp" \/ (tx.pc = "idle" /\ tx.res \in {"Ok", "Interrupted"})) =>
         tx.sent = TxFrame /\ Len(tx.sent) = PayloadLen + 4

C16_Witness ==
  /\ tx.failAt = 0 /\ tx.buf = Fill("alt", BlockLen + 1)
  /\ tx.pc = "idle" /\ tx.res = "Ok" /\ tx.okCount = 2
  /\ tx.sent = Frame(2, Fill("alt", PayloadLen))

\* The sender's read of the answer to a data packet returns.
TxAnswer == TxReads /\ tx.pc = "resp"

\* C17: the events of write_packet.  Waiting comes first in a call and only
\* from an engine whose handshake has not started; Packet(n) is emitted only
\* on reading the peer's ACK, with n the number that went out on the wire;
\* the Packet events count 1, 2, 3, .. modulo 256 with no gap and no repeat;
\* an attempt that is NAKed emits no Packet event.
C17_ProgressEvents ==
  /\ [](/\ \A k \in 1..Len(tx.events) :
             /\ tx.events[k] = Waiting => k = 1
             /\ tx.events[k].t = "Packet" =>
                  /\ k = Len(tx.events) /\ tx.pc = "idle" /\ tx.res = "Ok"
                  /\ tx.events[k].n = tx.sent[2]
                  /\ tx.events[k].n = tx.okCount % 256
        /\ tx.pc = "hs" => ~tx.started /\ tx.events = <<Waiting>>)
  /\ [][/\ (tx.pc = "idle" /\ tx'.pc # "idle") =>
             IF tx.started THEN tx'.events = <<>> ELSE tx'.events = <<Waiting>>
        /\ (TxAnswer /\ Head(toTx) = ACK) =>
             tx'.events = Append(tx.events, Packet(tx.packet))
        /\ (TxAnswer /\ Head(toTx) = NAK) =>
             tx'.res = "Interrupted" /\ tx'.events = tx.events
        /\ (tx'.events # tx.events /\ tx'.events # <<>>
              /\ tx'.events[Len(tx'.events)].t = "Packet") =>
             TxAnswer /\ Head(toTx) = ACK]_vars

C17_Witness ==
  /\ tx.pc = "idle" /\ tx.okCount = 2 /\ tx.calls = 3
  /\ tx.events = <<Started, Packet(2)>> /\ tx.sent[2] = 2

\* C18: a write the transport fails while write_packet sends a data packet
\* makes the call fail with the transport's error at that byte: the call never
\* goes on past a failed write and never returns Ok.
C18_WriteFailureSurfaces ==
  tx.failAt # 0 =>
    /\ tx.pc = "echo1" => tx.failAt > 2
    /\ tx.pc = "echo2" => tx.failAt > 3
    /\ tx.pc # "resp"
    /\ ~(tx.pc = "idle" /\ tx.res = "Ok" /\ tx.resN > 0)
    /\ tx.res = "Other" => Len(tx.sent) = tx.failAt - 1

\* The bytes the receiver has taken and those in flight are together a
\* well-formed packet with the expected number.
RxWellFormed ==
  /\ link = "receiver" /\ rx.pc \in {"ctl", "seq", "cmp", "payload", "cksum"}
  /\ \A k \in 1..Len(rx.sent) : rx.sent[k] # CAN
  /\ \E kind \in FrameKinds :
       LET f == Frame(rx.packet, Fill(kind, PayloadLen))
           taken == CASE rx.pc = "ctl" -> 0
                      [] rx.pc = "seq" -> 1
                      [] rx.pc = "cmp" -> 2
                      [] rx.pc = "payload" -> 3 + rx.i
                      [] OTHER -> PayloadLen + 3
       IN /\ toRx = SubSeq(f, taken + 1, PayloadLen + 4)
          /\ taken > 3 => SubSeq(rx.buf, 1, taken - 3) = SubSeq(f, 4, taken)

\* C19: a well-formed packet with the expected number is accepted whatever
\* byte values it carries: no byte of it ends read_packet with an error, and
\* on its checksum byte the call returns 128 with the payload in buf[0..127],
\* writes ACK and advances the sequence number.
C19_AcceptsAnyBytes ==
  [][(RxReads /\ RxWellFormed) =>
       /\ rx'.res \in {"none", "Ok"}
       /\ rx.pc = "cksum" =>
            /\ rx'.pc = "idle" /\ rx'.res = "Ok" /\ rx'.resN = BlockLen
            /\ rx'.out = <<ACK>> /\ rx'.packet = WrappingInc(rx.packet)
            /\ SubSeq(rx'.buf, 1, PayloadLen) = SubSeq(rx.buf, 1, PayloadLen)]_vars

\* C20: write_packet with a data packet against read_packet on a loopback pair
\* never comes to both threads blocked in a read with both channels empty.
C20_NoMutualWait ==
  ~(/\ link = "loopback"
    /\ tx.pc \in {"echo1", "echo2", "resp"} /\ RxBlocked
    /\ toTx = <<>> /\ toRx = <<>>)

====
